---- MODULE Spec2Model ----
(***************************************************************************)
(* A model of SnapDB (src/src/index.ts): a file-backed key-value store     *)
(* with an in-memory cache, dot-notation paths, an atomic temp-file/rename *)
(* save, optional AES-256-CBC encryption and EventEmitter notifications.   *)
(*                                                                         *)
(* JavaScript values are tagged records of one shape, so that any two of   *)
(* them can be compared.  A file's text is a record too: its kind (JSON    *)
(* text, '<iv>:<ciphertext>' envelope, blank, not JSON, truncated), the    *)
(* JSON value the text denotes, the indentation and the envelope's iv and  *)
(* key.  A dot-notation key is the sequence of its segments.               *)
(***************************************************************************)
EXTENDS Integers, Sequences, FiniteSets, TLC

VARIABLES
    fs,          \* the file system: path -> content (NoFile when absent)
    pc,          \* "none" (no instance), "idle", the step of the running call,
                 \* or "done" (the call has just returned or raised)
    dead,        \* the process crashed at pc
    options,     \* this.options, as given to the constructor
    cache,       \* this._cache, the Document
    errListener, \* an observer is subscribed to 'error'
    op,          \* the public call that runs or ran last
    data,        \* dataToWrite of the running save
    events,      \* notifications emitted by the running or last call
    ret,         \* result of the last call
    steps,       \* history: protocol steps of the running or last call
    saveOutcome, \* history: outcome of the save of the running or last call
    pre,         \* history: Backing File content when the call began
    preCache,    \* history: Document when the call began
    failed,      \* history: a save failed since the last successful rename
    extTouched,  \* history: the Backing File was changed externally since then
    nOps,        \* number of public calls made
    nFaults,     \* number of I/O faults, crashes and external changes
    peer,        \* a second process with an instance on the same Backing
                 \* File: its state while the other one runs
    outer        \* the calls of this instance that are inside their emit()
                 \* while an observer's callback makes another call

vars == <<fs, pc, dead, options, cache, errListener, op, data, events, ret,
          steps, saveOutcome, pre, preCache, failed, extTouched, nOps, nFaults,
          peer, outer>>

----------------------------------------------------------------------------
(* Bounds *)

MaxOps == 3
MaxFaults == 1

(* Program constants *)

KeyLen == 32

----------------------------------------------------------------------------
(* JavaScript values *)

EmptyMap == [k \in {} |-> 0]

Undef == [t |-> "undef", n |-> 0, e |-> <<>>, m |-> EmptyMap]
Null == [t |-> "null", n |-> 0, e |-> <<>>, m |-> EmptyMap]
Fn == [t |-> "fn", n |-> 0, e |-> <<>>, m |-> EmptyMap]
Num(n) == [t |-> "num", n |-> n, e |-> <<>>, m |-> EmptyMap]
NaN == [t |-> "nan", n |-> 0, e |-> <<>>, m |-> EmptyMap]
\* Infinity (sign = 1) and -Infinity (sign = -1)
Infinity(sign) == [t |-> "inf", n |-> sign, e |-> <<>>, m |-> EmptyMap]
Str(n) == [t |-> "str", n |-> n, e |-> <<>>, m |-> EmptyMap]
Bool(b) == [t |-> "bool", n |-> IF b THEN 1 ELSE 0, e |-> <<>>, m |-> EmptyMap]
Arr(e) == [t |-> "arr", n |-> 0, e |-> e, m |-> EmptyMap]
Obj(m) == [t |-> "obj", n |-> 0, e |-> <<>>, m |-> m]
EmptyObj == Obj(EmptyMap)
\* an object literal given as an argument: its members m, and in e the order
\* its keys were written in; the objects the store builds have e = <<>>, the
\* order of their keys is not followed
ObjLit(order, m) == [t |-> "obj", n |-> 0, e |-> order, m |-> m]

\* typeof v
typeof(v) ==
    CASE v.t \in {"null", "arr", "obj"} -> "object"
      [] v.t \in {"num", "nan", "inf"} -> "number"
      [] v.t = "str" -> "string"
      [] v.t = "bool" -> "boolean"
      [] v.t = "fn" -> "function"
      [] OTHER -> "undefined"

\* property names every object and array inherits from Object.prototype
ProtoKeys == {"toString"}

\* key in v, for an object or array v
In(key, v) == key \in DOMAIN v.m \/ key \in ProtoKeys

\* v[key], for an object or array v
Prop(v, key) ==
    IF key \in DOMAIN v.m THEN v.m[key]
    ELSE IF key \in ProtoKeys THEN Fn ELSE Undef

\* v[key] = x, for an object or array v
PutProp(v, key, x) ==
    [v EXCEPT !.m = [kk \in (DOMAIN v.m) \cup {key} |->
                        IF kk = key THEN x ELSE v.m[kk]]]

\* delete v[key], for an object or array v
DelProp(v, key) ==
    [v EXCEPT !.m = [kk \in (DOMAIN v.m) \ {key} |-> v.m[kk]]]

----------------------------------------------------------------------------
(* Deep object helpers *)

RECURSIVE SetIn(_, _, _)
\* the loop and the final assignment of _setDeep, from `current` on;
\* ok = FALSE when a TypeError is thrown, doc is `current` as left behind
SetIn(current, keys, value) ==
    IF current.t \notin {"obj", "arr"}
    THEN [ok |-> FALSE, doc |-> current]
    ELSE IF Len(keys) = 1
    THEN [ok |-> TRUE, doc |-> PutProp(current, keys[1], value)]
    ELSE LET key == keys[1]
             child == IF ~In(key, current) \/ typeof(Prop(current, key)) # "object"
                      THEN EmptyObj
                      ELSE Prop(current, key)
             r == SetIn(child, Tail(keys), value)
         IN  [ok |-> r.ok, doc |-> PutProp(current, key, r.doc)]

setDeep(doc, keys, value) == SetIn(doc, keys, value)

RECURSIVE GetIn(_, _)
GetIn(current, keys) ==
    IF keys = <<>> THEN current
    ELSE IF current.t \in {"undef", "null"} \/ typeof(current) # "object"
    THEN Undef
    ELSE GetIn(Prop(current, keys[1]), Tail(keys))

getDeep(doc, keys) == GetIn(doc, keys)

RECURSIVE DelIn(_, _)
\* _deleteDeep from `current` on: the new `current` and the result
DelIn(current, keys) ==
    IF Len(keys) = 1
    THEN IF current.t \in {"obj", "arr"} /\ In(keys[1], current)
         THEN [deleted |-> TRUE, doc |-> DelProp(current, keys[1])]
         ELSE [deleted |-> FALSE, doc |-> current]
    ELSE IF current.t \in {"undef", "null"} \/ typeof(current) # "object"
    THEN [deleted |-> FALSE, doc |-> current]
    ELSE LET key == keys[1]
             r == DelIn(Prop(current, key), Tail(keys))
         IN  [deleted |-> r.deleted,
              doc |-> IF r.deleted THEN PutProp(current, key, r.doc) ELSE current]

deleteDeep(doc, keys) == DelIn(doc, keys)

----------------------------------------------------------------------------
(* File contents and the codec *)

Content(k, j, pretty, iv, key) ==
    [k |-> k, j |-> j, pretty |-> pretty, iv |-> iv, key |-> key]

NoFile == Content("absent", Undef, FALSE, 0, 0)
Blank == Content("blank", Undef, FALSE, 0, 0)
Garbage == Content("garbage", Undef, FALSE, 0, 0)

\* what is left of a text whose write stopped half way
Partial(text) == [text EXCEPT !.k = "partial"]

\* JSON.stringify leaves out what JSON cannot hold
Serializable(v) == v.t \notin {"undef", "fn"}

RECURSIVE ToJSON(_)
\* the JSON value JSON.stringify writes for v: own properties of arrays and
\* undefined or function members of objects are left out, undefined or
\* function elements of arrays become null, and so do NaN and the infinities;
\* the keys of an object are written in their order
ToJSON(v) ==
    CASE v.t = "obj" ->
           ObjLit(SelectSeq(v.e, LAMBDA kk : Serializable(v.m[kk])),
                  [key \in {kk \in DOMAIN v.m : Serializable(v.m[kk])} |-> ToJSON(v.m[key])])
      [] v.t = "arr" ->
           Arr([i \in 1..Len(v.e) |->
                   IF Serializable(v.e[i]) THEN ToJSON(v.e[i]) ELSE Null])
      [] v.t \in {"nan", "inf"} -> Null
      [] OTHER -> v

\* indentation shows only in an object or array that has members
HasMembers(j) == (j.t = "obj" /\ DOMAIN j.m # {}) \/ (j.t = "arr" /\ Len(j.e) > 0)

\* JSON.stringify(v, null, indent ? 2 : undefined)
JSONstringify(v, indent) ==
    Content("json", ToJSON(v), indent /\ HasMembers(ToJSON(v)), 0, 0)

\* JSON.parse(text): ok = FALSE when it throws a SyntaxError
JSONparse(text) ==
    IF text.k = "json" THEN [ok |-> TRUE, v |-> text.j] ELSE [ok |-> FALSE, v |-> Undef]

\* `if (this.options.encryptionKey)`: a present, non-empty key
Truthy(o) == o.present /\ o.len > 0

\* _encrypt(text) with the random iv drawn
encrypt(text, o, iv) ==
    IF ~Truthy(o) THEN text
    ELSE Content("env", text.j, FALSE, iv, o.id)

\* _decrypt(text): the possible outcomes; ok = FALSE when it throws.  An
\* envelope under another key fails the padding check or, when the padding
\* happens to validate, yields bytes that are not the plaintext; a text that
\* is no envelope has no 16-byte iv before its first ':' and throws.
decrypt(text, o) ==
    IF ~Truthy(o) THEN {[ok |-> TRUE, text |-> text]}
    ELSE IF text.k = "env" /\ text.key = o.id
    THEN {[ok |-> TRUE, text |-> Content("json", text.j, FALSE, 0, 0)]}
    ELSE IF text.k = "env"
    THEN {[ok |-> FALSE, text |-> Garbage], [ok |-> TRUE, text |-> Garbage]}
    ELSE {[ok |-> FALSE, text |-> Garbage]}

\* the dataToWrite of _save
encode(doc, o, iv) ==
    IF Truthy(o) THEN encrypt(JSONstringify(doc, FALSE), o, iv)
    ELSE JSONstringify(doc, o.pretty)

\* a load whose plain JSON.parse is not inside a try block
decodeContent_noCatch(fileContent, o) ==
    IF ~Truthy(o) /\ ~JSONparse(fileContent).ok
    THEN {[raised |-> TRUE, cache |-> EmptyObj]}
    ELSE {[raised |-> FALSE,
           cache |-> IF JSONparse(fileContent).ok THEN JSONparse(fileContent).v
                     ELSE EmptyObj]}

\* the body of _load's try block for a file with non-blank content: the
\* possible outcomes, raised = TRUE when an exception leaves _load
decodeContent(fileContent, o) ==
    IF Truthy(o)
    THEN { LET p == IF d.ok THEN JSONparse(d.text) ELSE [ok |-> FALSE, v |-> Undef]
               q == JSONparse(fileContent)
           IN  [raised |-> FALSE,
                cache |-> IF p.ok THEN p.v ELSE IF q.ok THEN q.v ELSE EmptyObj]
           : d \in decrypt(fileContent, o) }
    ELSE { LET q == JSONparse(fileContent)
           IN  [raised |-> FALSE, cache |-> IF q.ok THEN q.v ELSE EmptyObj] }

----------------------------------------------------------------------------
(* The file system *)

filePath == "db"

\* a save that writes the Backing File in place
tempPath_inPlace == filePath

\* `${this.filePath}.tmp`
tempPath == "tmp"

\* what a writeFileSync(path, d) that fails or is cut short leaves at path
\* a destination of backup() other than the store's own files
backupPath == "bak"

Leftovers(path, d) == {fs[path], Blank, Partial(d)}

\* a rename that removes the source without putting it at the destination
renameSync_unlink(src, dst) == [fs EXCEPT ![src] = NoFile]

\* fs.renameSync(src, dst)
renameSync(src, dst) ==
    IF src = dst THEN fs
    ELSE [fs EXCEPT ![dst] = fs[src], ![src] = NoFile]

----------------------------------------------------------------------------
(* Inputs *)

Paths == {<<"a">>, <<"a", "b">>, <<"toString">>}

Values == {Null, Num(1), Arr(<<Num(1)>>)}

\* the (key, value) arguments of set: every value at the top-level key, one
\* value at the other keys
SetInputs == {kv \in Paths \X Values : kv[1] = <<"a">> \/ kv[2] = Num(1)}

IVs == {1, 2}

Opt(present, len, id, pretty) ==
    [present |-> present, len |-> len, id |-> id, pretty |-> pretty]

\* constructor options: no key, the empty key (and no indentation), keys of
\* 31 and 33 characters, two different keys of 32 characters
ConstructorOptions ==
    {Opt(FALSE, 0, 0, TRUE), Opt(TRUE, 0, 0, FALSE),
     Opt(TRUE, 31, 1, TRUE), Opt(TRUE, 33, 1, TRUE),
     Opt(TRUE, KeyLen, 1, TRUE), Opt(TRUE, KeyLen, 2, TRUE)}

\* what the Backing File may hold before the first construction
InitContents ==
    {NoFile, Blank, Garbage,
     JSONstringify(Obj([a \in {"a"} |-> Null]), TRUE),
     JSONstringify(Null, TRUE),
     Content("env", Obj([a \in {"a"} |-> Arr(<<>>)]), FALSE, 1, 1)}

\* what another program may write over the Backing File
ExternalContents == {JSONstringify(Obj([a \in {"a"} |-> Num(2)]), FALSE)}

----------------------------------------------------------------------------
(* State *)

Ev(name, key, val) == [name |-> name, key |-> key, val |-> val]
Call(name, key, val) == [name |-> name, key |-> key, val |-> val]
Returned(v) == [k |-> "val", v |-> v, err |-> ""]
Raised(err) == [k |-> "raise", v |-> Undef, err |-> err]
Pending == [k |-> "none", v |-> Undef, err |-> ""]

\* the state of one process: its instance and the call it is in
Process(id) ==
    [id |-> id, pc |-> pc, dead |-> dead, options |-> options, cache |-> cache,
     errListener |-> errListener, op |-> op, data |-> data, events |-> events,
     ret |-> ret, steps |-> steps, saveOutcome |-> saveOutcome, pre |-> pre,
     preCache |-> preCache, failed |-> failed, extTouched |-> extTouched]

\* no second process
NoPeer ==
    [id |-> 0, pc |-> "none", dead |-> FALSE, options |-> Opt(FALSE, 0, 0, TRUE),
     cache |-> EmptyObj, errListener |-> FALSE, op |-> Call("none", <<>>, Undef),
     data |-> NoFile, events |-> <<>>, ret |-> Pending, steps |-> <<>>,
     saveOutcome |-> "none", pre |-> NoFile, preCache |-> EmptyObj,
     failed |-> FALSE, extTouched |-> FALSE]

Init ==
    /\ fs \in {[p \in {filePath, tempPath, backupPath} |->
                    IF p = filePath THEN c ELSE NoFile] :
                 c \in InitContents}
    /\ pc = "none"
    /\ dead = FALSE
    /\ options = Opt(FALSE, 0, 0, TRUE)
    /\ cache = EmptyObj
    /\ errListener = FALSE
    /\ op = Call("none", <<>>, Undef)
    /\ data = NoFile
    /\ events = <<>>
    /\ ret = Pending
    /\ steps = <<>>
    /\ saveOutcome = "none"
    /\ pre = NoFile
    /\ preCache = EmptyObj
    /\ failed = FALSE
    /\ extTouched = FALSE
    /\ nOps = 0
    /\ nFaults = 0
    /\ peer = NoPeer
    /\ outer = <<>>

\* a public call begins
Begin(call) ==
    /\ nOps < MaxOps
    /\ nOps' = nOps + 1
    /\ op' = call
    /\ pre' = fs[filePath]
    /\ preCache' = cache
    /\ UNCHANGED <<peer, outer>>

\* _save() is entered with the Document doc: dataToWrite is computed
EnterSave(doc, o) ==
    /\ \E iv \in IF Truthy(o) THEN IVs ELSE {0} : data' = encode(doc, o, iv)
    /\ pc' = "write"
    /\ saveOutcome' = "none"
    /\ ret' = Pending

\* the call returns or raises without having entered _save()
\* the caller of set() takes the value it returns when set() is through
EnterSaveFor(doc, o, result) ==
    /\ \E iv \in IF Truthy(o) THEN IVs ELSE {0} : data' = encode(doc, o, iv)
    /\ pc' = "write"
    /\ saveOutcome' = "none"
    /\ ret' = [Pending EXCEPT !.v = result]

Leave(result) ==
    /\ pc' = "done"
    /\ ret' = result
    /\ saveOutcome' = "none"
    /\ UNCHANGED data

----------------------------------------------------------------------------
(* Construction *)

\* new SnapDB(o) with a key that is rejected: no instance
ConstructRejected(o) ==
    /\ pc = "none" \/ dead
    /\ Truthy(o) /\ o.len # KeyLen
    /\ Begin(Call("construct", <<>>, Undef))
    /\ options' = o
    /\ pc' = "none"
    /\ dead' = FALSE
    /\ ret' = Raised("Error")
    /\ cache' = EmptyObj
    /\ errListener' = FALSE
    /\ events' = <<>>
    /\ steps' = <<>>
    /\ saveOutcome' = "none"
    /\ UNCHANGED <<fs, data, failed, extTouched, nFaults>>

\* a load that also saves the empty Document over a blank file
loadSaves_blank(content) == content = NoFile \/ content.k = "blank"

\* `if (!fs.existsSync(this.filePath))`: the branch of _load() that saves
loadSaves(content) == content = NoFile

\* new SnapDB(o): the constructor and _load() up to its return or its _save()
Construct(o) ==
    /\ pc = "none" \/ dead
    /\ ~(Truthy(o) /\ o.len # KeyLen)
    /\ Begin(Call("construct", <<>>, Undef))
    /\ options' = o
    /\ dead' = FALSE
    /\ errListener' = FALSE
    /\ failed' = FALSE
    /\ extTouched' = FALSE
    /\ UNCHANGED <<fs, nFaults>>
    /\ IF loadSaves(fs[filePath])
       THEN /\ cache' = EmptyObj
            /\ events' = <<>>
            /\ steps' = <<"load">>
            /\ EnterSave(EmptyObj, o)
       ELSE IF fs[filePath].k = "blank"
       THEN /\ cache' = EmptyObj
            /\ events' = <<>>
            /\ steps' = <<"load">>
            /\ Leave(Returned(Undef))
       ELSE \E r \in decodeContent(fs[filePath], o) :
            IF r.raised
            THEN /\ cache' = EmptyObj
                 /\ events' = <<>>
                 /\ steps' = <<>>
                 /\ Leave(Raised("Error"))
            ELSE /\ cache' = r.cache
                 /\ events' = <<Ev("ready", <<>>, Undef)>>
                 /\ steps' = <<"load", "notify">>
                 /\ Leave(Returned(Undef))

\* the caller has the result and goes on; the history of the call is dropped
Return ==
    /\ UNCHANGED <<peer, outer>>
    /\ pc = "done" /\ ~dead
    /\ outer = <<>>
    /\ pc' = "idle"
    /\ op' = Call("none", <<>>, Undef)
    /\ ret' = Pending
    /\ data' = NoFile
    /\ events' = <<>>
    /\ steps' = <<>>
    /\ saveOutcome' = "none"
    /\ pre' = NoFile
    /\ preCache' = EmptyObj
    /\ UNCHANGED <<fs, dead, options, cache, errListener, failed, extTouched,
                   nOps, nFaults>>

\* db.on('error', ...)
Subscribe ==
    /\ UNCHANGED <<peer, outer>>
    /\ pc = "idle" /\ ~dead
    /\ ~errListener
    /\ errListener' = TRUE
    /\ UNCHANGED <<fs, pc, dead, options, cache, op, data, events, ret, steps,
                   saveOutcome, pre, preCache, failed, extTouched, nOps, nFaults>>

\* the process ends; the files stay
Close ==
    /\ UNCHANGED <<peer, outer>>
    /\ pc = "idle" /\ ~dead
    /\ nOps < MaxOps
    /\ pc' = "none"
    /\ UNCHANGED <<fs, dead, options, cache, errListener, op, data, events, ret,
                   steps, saveOutcome, pre, preCache, failed, extTouched, nOps, nFaults>>

----------------------------------------------------------------------------
(* Public operations *)

Ready == pc = "idle" /\ ~dead

\* the body of set(key, value) up to its _save()
SetCall(key, value) ==
    /\ LET r == setDeep(cache, key, value)
       IN  /\ cache' = r.doc
           /\ events' = <<>>
           /\ IF r.ok
              THEN /\ steps' = <<"mutate">>
                   /\ EnterSave(r.doc, options)
              ELSE /\ steps' = <<>>
                   /\ Leave(Raised("TypeError"))
    /\ UNCHANGED <<fs, dead, options, errListener, failed, extTouched, nFaults>>

\* set(key, value) up to its _save()
Set(key, value) ==
    /\ Ready
    /\ Begin(Call("set", key, value))
    /\ SetCall(key, value)

\* delete(key) up to its _save() or, when nothing was deleted, its return
Delete(key) ==
    /\ Ready
    /\ Begin(Call("delete", key, Undef))
    /\ LET r == deleteDeep(cache, key)
       IN  /\ cache' = r.doc
           /\ events' = <<>>
           /\ IF r.deleted
              THEN /\ steps' = <<"mutate">>
                   /\ EnterSave(r.doc, options)
              ELSE /\ steps' = <<>>
                   /\ Leave(Returned(Bool(FALSE)))
    /\ UNCHANGED <<fs, dead, options, errListener, failed, extTouched, nFaults>>

\* clear() up to its _save()
Clear ==
    /\ Ready
    /\ Begin(Call("clear", <<>>, Undef))
    /\ cache' = EmptyObj
    /\ events' = <<>>
    /\ steps' = <<"mutate">>
    /\ EnterSave(EmptyObj, options)
    /\ UNCHANGED <<fs, dead, options, errListener, failed, extTouched, nFaults>>

\* a get that reads the Backing File instead of the cache
get_fromFile(key, defaultValue) ==
    LET onDisk == IF fs[filePath].k = "json" THEN fs[filePath].j ELSE EmptyObj
        val == getDeep(onDisk, key)
    IN  IF val = Undef THEN defaultValue ELSE val

\* get(key, defaultValue) of the instance
get(key, defaultValue) ==
    LET val == getDeep(cache, key)
    IN  IF val = Undef THEN defaultValue ELSE val

\* has(key) of the instance
has(key) == get(key, Undef) # Undef

\* all() of the instance
all == cache

Reads(name, key, result) ==
    /\ Ready
    /\ Begin(Call(name, key, Undef))
    /\ ret' = Returned(result)
    /\ events' = <<>>
    /\ steps' = <<>>
    /\ saveOutcome' = "none"
    /\ pc' = "done"
    /\ UNCHANGED <<fs, dead, options, cache, errListener, data,
                   failed, extTouched, nFaults>>

\* the caller's statement db.all()[key] = value: all() returns the Document
\* itself, and the assignment changes it in place; on a Document that is
\* null the assignment throws in the caller and nothing is changed
CallerChange(key, value) ==
    /\ Ready
    /\ Begin(Call("all", <<key>>, value))
    /\ cache' = IF all.t \in {"obj", "arr"} THEN PutProp(all, key, value) ELSE all
    /\ ret' = Returned(cache')
    /\ events' = <<>>
    /\ steps' = <<>>
    /\ saveOutcome' = "none"
    /\ pc' = "done"
    /\ UNCHANGED <<fs, dead, options, errListener, data,
                   failed, extTouched, nFaults>>

Get(key) == Reads("get", key, get(key, Undef))

Has(key) == Reads("has", key, Bool(has(key)))

----------------------------------------------------------------------------
(* Numeric operations *)

\* the operations that end in this.set(key, newValue)
ViaSet == {"add", "subtract", "math", "push", "pull"}

Operators == {"+", "-", "*", "/", "%"}

Sign(n) == IF n < 0 THEN -1 ELSE 1

Abs(n) == IF n < 0 THEN 0 - n ELSE n

\* a % b of two integers, b # 0: the remainder has the sign of the dividend
Rem(a, b) == IF a < 0 THEN 0 - (Abs(a) % Abs(b)) ELSE Abs(a) % Abs(b)

\* the quotient of a / b is an integer, or b is 0
Exact(a, b) == IF b = 0 THEN TRUE ELSE Abs(a) % Abs(b) = 0

\* current <operator> operand of the switch in math(), for a number current
\* and an integer operand, in IEEE arithmetic
Arith(current, operator, operand) ==
    IF current.t = "nan" THEN NaN
    ELSE IF current.t = "inf"
    THEN CASE operator \in {"+", "-"} -> current
           [] operator = "*" ->
                IF operand = 0 THEN NaN ELSE Infinity(current.n * Sign(operand))
           [] operator = "/" -> Infinity(current.n * Sign(operand))
           [] operator = "%" -> NaN
    ELSE CASE operator = "+" -> Num(current.n + operand)
           [] operator = "-" -> Num(current.n - operand)
           [] operator = "*" -> Num(current.n * operand)
           [] operator = "/" ->
                IF operand # 0
                THEN Num(Sign(current.n) * Sign(operand)
                            * (Abs(current.n) \div Abs(operand)))
                ELSE IF current.n = 0 THEN NaN ELSE Infinity(Sign(current.n))
           [] operator = "%" ->
                IF operand = 0 THEN NaN ELSE Num(Rem(current.n, operand))

\* a call of math, with its operator
MathCall(key, operator, operand) ==
    [name |-> "math", key |-> key, val |-> Num(operand), operator |-> operator]

\* the body add() and math() share: read the current number, compute, set
Update(call, key, operator, operand) ==
    /\ Ready
    /\ Begin(call)
    /\ events' = <<>>
    /\ LET current == get(key, Num(0))
       IN  IF typeof(current) # "number" \/ operator \notin Operators
           THEN /\ cache' = cache
                /\ steps' = <<>>
                /\ Leave(Raised("Error"))
           ELSE LET newVal == Arith(current, operator, operand)
                    r == setDeep(cache, key, newVal)
                IN  /\ cache' = r.doc
                    /\ IF r.ok
                       THEN /\ steps' = <<"mutate">>
                            /\ EnterSaveFor(r.doc, options, newVal)
                       ELSE /\ steps' = <<>>
                            /\ Leave(Raised("TypeError"))
    /\ UNCHANGED <<fs, dead, options, errListener, failed, extTouched, nFaults>>

\* add(key, count)
Add(key, count) == Update(Call("add", key, Num(count)), key, "+", count)

\* subtract(key, count): add(key, -count)
Subtract(key, count) ==
    Update(Call("subtract", key, Num(count)), key, "+", 0 - count)

\* math(key, operator, operand); the quotients of the model are integers
Math(key, operator, operand) ==
    /\ operator = "/" /\ get(key, Num(0)).t = "num"
           => Exact(get(key, Num(0)).n, operand)
    /\ Update(MathCall(key, operator, operand), key, operator, operand)

----------------------------------------------------------------------------
(* Array operations *)

\* the predicate item => typeof item === 'number', given to pull
IsNumber == [t |-> "fn", n |-> 1, e |-> <<>>, m |-> EmptyMap]

\* elementOrFilter(item) for the predicate
Apply(elementOrFilter, item) == typeof(item) = "number"

\* JSON.stringify(v) of one value: undefined for undefined and functions
JSONtext(v) == IF Serializable(v) THEN ToJSON(v) ELSE Undef

\* the callback of current.filter in pull: the item is kept
Kept(item, elementOrFilter) ==
    IF typeof(elementOrFilter) = "function"
    THEN ~Apply(elementOrFilter, item)
    ELSE JSONtext(item) # JSONtext(elementOrFilter)

\* a test that takes every typeof 'object' value for an array
isArray_typeof(v) == typeof(v) = "object"

\* Array.isArray(v)
isArray(v) == v.t = "arr"

\* the body push() and pull() share, from the new array on
Replace(call, key, current, newArr) ==
    /\ Ready
    /\ Begin(call)
    /\ events' = <<>>
    /\ IF ~isArray(current)
       THEN /\ cache' = cache
            /\ steps' = <<>>
            /\ Leave(Raised("Error"))
       ELSE LET r == setDeep(cache, key, newArr)
            IN  /\ cache' = r.doc
                /\ IF r.ok
                   THEN /\ steps' = <<"mutate">>
                        /\ EnterSaveFor(r.doc, options, newArr)
                   ELSE /\ steps' = <<>>
                        /\ Leave(Raised("TypeError"))
    /\ UNCHANGED <<fs, dead, options, errListener, failed, extTouched, nFaults>>

\* push(key, ...elements): the array read is extended in place and set
Push(key, elements) ==
    LET current == get(key, Arr(<<>>))
    IN  Replace(Call("push", key, Arr(elements)), key, current,
                [current EXCEPT !.e = @ \o elements])

\* pull(key, elementOrFilter): a new array of the items kept is set
Pull(key, elementOrFilter) ==
    LET current == get(key, Arr(<<>>))
    IN  Replace(Call("pull", key, elementOrFilter), key, current,
                Arr(SelectSeq(current.e, LAMBDA item : Kept(item, elementOrFilter))))

----------------------------------------------------------------------------
(* Backup *)

\* fs.copyFileSync(src, dst): a file copied onto itself is left as it is
copyFileSync(src, dst) ==
    IF src = dst THEN fs ELSE [fs EXCEPT ![dst] = fs[src]]

\* a backup without its try/catch
backupResult_noCatch(copied) ==
    IF copied THEN Returned(Bool(TRUE)) ELSE Raised("Error")

\* what backup() returns: true after the copy, false from the catch block
backupResult(copied) == Returned(Bool(copied))

\* backup() from the call to its result
BackupCall(destPath, copied) ==
    /\ Ready
    /\ Begin(Call("backup", <<destPath>>, Undef))
    /\ saveOutcome' = IF copied THEN "copied" ELSE "copyfail"
    /\ ret' = backupResult(copied)
    /\ pc' = "done"
    /\ events' = <<>>
    /\ steps' = <<>>
    /\ UNCHANGED <<dead, options, cache, errListener, data, failed, extTouched>>

\* backup(destPath) whose copy succeeds
Backup(destPath) ==
    /\ fs[filePath] # NoFile
    /\ fs' = copyFileSync(filePath, destPath)
    /\ UNCHANGED nFaults
    /\ BackupCall(destPath, TRUE)

\* backup(destPath) whose copy throws: the Backing File is absent, or the
\* copy fails on the way and leaves the destination as it was, empty or cut
\* short
BackupFails(destPath) ==
    /\ IF fs[filePath] = NoFile
       THEN UNCHANGED <<fs, nFaults>>
       ELSE /\ nFaults < MaxFaults
            /\ nFaults' = nFaults + 1
            /\ \E c \in IF destPath = filePath THEN {fs[filePath]}
                         ELSE Leftovers(destPath, fs[filePath]) :
                   fs' = [fs EXCEPT ![destPath] = c]
    /\ BackupCall(destPath, FALSE)

----------------------------------------------------------------------------
(* _save(): temp write, rename, catch; then the caller's notification *)

\* the catch block of _save(): emit('error', err) throws err itself when no
\* observer is subscribed to 'error'; inside _load() the outer catch takes it
Catch(outcome) ==
    /\ UNCHANGED <<peer, outer>>
    /\ saveOutcome' = outcome
    /\ failed' = TRUE
    /\ IF errListener
       THEN /\ events' = Append(events, Ev("error", <<>>, Undef))
            /\ steps' = Append(steps, "save")
            /\ pc' = "notify"
            /\ UNCHANGED <<cache, ret>>
       ELSE IF op.name = "construct"
       THEN /\ events' = Append(events, Ev("ready", <<>>, Undef))
            /\ steps' = steps \o <<"save", "notify">>
            /\ cache' = EmptyObj
            /\ pc' = "done"
            /\ ret' = Returned(Undef)
       ELSE /\ steps' = Append(steps, "save")
            /\ pc' = "done"
            /\ ret' = Raised("IOError")
            /\ UNCHANGED <<cache, events>>
    /\ UNCHANGED <<dead, options, errListener, op, data, pre, preCache,
                   extTouched, nOps>>

\* fs.writeFileSync(tempPath, dataToWrite) succeeds
WriteTemp ==
    /\ UNCHANGED <<peer, outer>>
    /\ pc = "write" /\ ~dead
    /\ fs' = [fs EXCEPT ![tempPath] = data]
    /\ pc' = "rename"
    /\ UNCHANGED <<dead, options, cache, errListener, op, data, events, ret, steps,
                   saveOutcome, pre, preCache, failed, extTouched, nOps, nFaults>>

\* fs.writeFileSync(tempPath, dataToWrite) throws
WriteTempFails ==
    /\ pc = "write" /\ ~dead
    /\ nFaults < MaxFaults
    /\ nFaults' = nFaults + 1
    /\ \E c \in Leftovers(tempPath, data) : fs' = [fs EXCEPT ![tempPath] = c]
    /\ Catch("writefail")

\* fs.renameSync(tempPath, this.filePath) succeeds
Rename ==
    /\ UNCHANGED <<peer, outer>>
    /\ pc = "rename" /\ ~dead
    /\ fs[tempPath] # NoFile
    /\ fs' = renameSync(tempPath, filePath)
    /\ pc' = "notify"
    /\ saveOutcome' = "ok"
    /\ steps' = Append(steps, "save")
    /\ failed' = FALSE
    /\ extTouched' = FALSE
    /\ UNCHANGED <<dead, options, cache, errListener, op, data, events, ret,
                   pre, preCache, nOps, nFaults>>

\* fs.renameSync(tempPath, this.filePath) throws: an I/O fault, or there is
\* no Temp File any more because another process renamed it away
RenameFails ==
    /\ pc = "rename" /\ ~dead
    /\ IF fs[tempPath] = NoFile
       THEN UNCHANGED nFaults
       ELSE nFaults < MaxFaults /\ nFaults' = nFaults + 1
    /\ UNCHANGED fs
    /\ Catch("renamefail")

\* after _save() returned: _load() returns, a mutation emits and returns
Notify ==
    /\ UNCHANGED <<peer, outer>>
    /\ pc = "notify" /\ ~dead
    /\ pc' = "done"
    /\ CASE op.name = "construct" ->
              /\ ret' = Returned(Undef)
              /\ UNCHANGED <<events, steps>>
         [] op.name = "set" ->
              /\ events' = Append(events, Ev("set", op.key, op.val))
              /\ steps' = Append(steps, "notify")
              /\ ret' = Returned(op.val)
         [] op.name = "delete" ->
              /\ events' = Append(events, Ev("delete", op.key, Undef))
              /\ steps' = Append(steps, "notify")
              /\ ret' = Returned(Bool(TRUE))
         [] op.name = "clear" ->
              /\ events' = Append(events, Ev("clear", <<>>, Undef))
              /\ steps' = Append(steps, "notify")
              /\ ret' = Returned(Undef)
         [] op.name \in ViaSet ->
              /\ events' = Append(events, Ev("set", op.key, ret.v))
              /\ steps' = Append(steps, "notify")
              /\ ret' = Returned(ret.v)
    /\ UNCHANGED <<fs, dead, options, cache, errListener, op, data, saveOutcome,
                   pre, preCache, failed, extTouched, nOps, nFaults>>

----------------------------------------------------------------------------
(* The environment *)

\* the process dies inside a call; a temp write in progress is cut short
Crash ==
    /\ UNCHANGED <<peer, outer>>
    /\ pc \in {"write", "rename", "notify"} /\ ~dead
    /\ nFaults < MaxFaults
    /\ nFaults' = nFaults + 1
    /\ dead' = TRUE
    /\ IF pc = "write"
       THEN \E c \in Leftovers(tempPath, data) : fs' = [fs EXCEPT ![tempPath] = c]
       ELSE UNCHANGED fs
    /\ UNCHANGED <<pc, options, cache, errListener, op, data, events, ret, steps,
                   saveOutcome, pre, preCache, failed, extTouched, nOps>>

\* another program overwrites the Backing File between two calls
ExternalWrite(c) ==
    /\ UNCHANGED <<peer, outer>>
    /\ Ready
    /\ nFaults < MaxFaults
    /\ nFaults' = nFaults + 1
    /\ fs[filePath] # c
    /\ fs' = [fs EXCEPT ![filePath] = c]
    /\ extTouched' = TRUE
    /\ UNCHANGED <<pc, dead, options, cache, errListener, op, data, events, ret,
                   steps, saveOutcome, pre, preCache, failed, nOps>>

\* another program deletes the Backing File between two calls
ExternalDelete ==
    /\ UNCHANGED <<peer, outer>>
    /\ Ready
    /\ nFaults < MaxFaults
    /\ nFaults' = nFaults + 1
    /\ fs[filePath] # NoFile
    /\ fs' = [fs EXCEPT ![filePath] = NoFile]
    /\ extTouched' = TRUE
    /\ UNCHANGED <<pc, dead, options, cache, errListener, op, data, events, ret,
                   steps, saveOutcome, pre, preCache, failed, nOps>>

External == ExternalDelete \/ \E c \in ExternalContents : ExternalWrite(c)

----------------------------------------------------------------------------

Next ==
    \/ \E o \in ConstructorOptions : ConstructRejected(o)
    \/ \E o \in ConstructorOptions : Construct(o)
    \/ Return
    \/ Subscribe
    \/ Close
    \/ \E kv \in SetInputs : Set(kv[1], kv[2])
    \/ \E key \in Paths : Delete(key)
    \/ Clear
    \/ \E key \in Paths : Get(key)
    \/ \E key \in Paths : Has(key)
    \/ WriteTemp
    \/ WriteTempFails
    \/ Rename
    \/ RenameFails
    \/ Notify
    \/ Crash
    \/ External

Spec == Init /\ [][Next]_vars

----------------------------------------------------------------------------
(* The store under its numeric operations *)

\* what every store does besides its mutations: construction with no key or
\* with a key, the caller going on, the steps of a save, external changes
Common ==
    \/ \E o \in {Opt(FALSE, 0, 0, TRUE), Opt(TRUE, KeyLen, 1, TRUE)} : Construct(o)
    \/ Return
    \/ Subscribe
    \/ WriteTemp
    \/ WriteTempFails
    \/ Rename
    \/ RenameFails
    \/ Notify
    \/ External

NumKeys == {<<"a">>, <<"a", "b">>}

\* the operators of math and one that is none, with the operands 0 and 2
MathInputs == (Operators \cup {"^"}) \X {0, 2}

NextNum ==
    \/ Common
    \/ \E key \in NumKeys : Add(key, 1)
    \/ Subtract(<<"a">>, 2)
    \/ \E mi \in MathInputs : Math(<<"a">>, mi[1], mi[2])

SpecNum == Init /\ [][NextNum]_vars

----------------------------------------------------------------------------
(* The store under its array operations *)

\* {x: 1, y: 2} and {y: 2, x: 1}
XY == ObjLit(<<"x", "y">>, [kk \in {"x", "y"} |-> IF kk = "x" THEN Num(1) ELSE Num(2)])
YX == ObjLit(<<"y", "x">>, [kk \in {"x", "y"} |-> IF kk = "x" THEN Num(1) ELSE Num(2)])

PushInputs == {<<Num(1), XY, Num(1)>>, <<Null>>}

PullInputs == {Num(1), YX, IsNumber}

NextArr ==
    \/ Common
    \/ \E key \in NumKeys, elements \in PushInputs : Push(key, elements)
    \/ \E key \in NumKeys, elementOrFilter \in PullInputs : Pull(key, elementOrFilter)

SpecArr == Init /\ [][NextArr]_vars

----------------------------------------------------------------------------
(* The store under set and the numeric and array operations together *)

\* a valid operator and one that is none
RejectInputs == {"*", "^"}

NextReject ==
    \/ Common
    \/ \E kv \in SetInputs : Set(kv[1], kv[2])
    \/ \E key \in NumKeys : Add(key, 1)
    \/ Subtract(<<"a">>, 2)
    \/ \E operator \in RejectInputs : Math(<<"a">>, operator, 2)
    \/ \E key \in NumKeys : Push(key, <<Null>>)
    \/ \E key \in NumKeys : Pull(key, Num(1))

SpecReject == Init /\ [][NextReject]_vars

----------------------------------------------------------------------------
(* The store with a caller that changes what all() returned *)

\* the entry the caller puts into the structure all() returned
CallerInputs == {<<"c", Num(7)>>}

\* what the Backing File may hold before the construction: nothing, an
\* object, an array, null
AliasContents ==
    {NoFile,
     JSONstringify(Obj([a \in {"a"} |-> Null]), TRUE),
     JSONstringify(Arr(<<>>), TRUE),
     JSONstringify(Null, TRUE)}

InitAlias ==
    /\ fs \in {[p \in {filePath, tempPath, backupPath} |->
                    IF p = filePath THEN c ELSE NoFile] :
                 c \in AliasContents}
    /\ pc = "none"
    /\ dead = FALSE
    /\ options = Opt(FALSE, 0, 0, TRUE)
    /\ cache = EmptyObj
    /\ errListener = FALSE
    /\ op = Call("none", <<>>, Undef)
    /\ data = NoFile
    /\ events = <<>>
    /\ ret = Pending
    /\ steps = <<>>
    /\ saveOutcome = "none"
    /\ pre = NoFile
    /\ preCache = EmptyObj
    /\ failed = FALSE
    /\ extTouched = FALSE
    /\ nOps = 0
    /\ nFaults = 0
    /\ peer = NoPeer
    /\ outer = <<>>

NextAlias ==
    \/ Common
    \/ \E kv \in CallerInputs : CallerChange(kv[1], kv[2])
    \/ \E key \in {<<"a">>, <<"c">>} : Set(key, Num(1))
    \/ Delete(<<"c">>)
    \/ Clear
    \/ Get(<<"c">>)
    \/ Has(<<"c">>)

SpecAlias == InitAlias /\ [][NextAlias]_vars

----------------------------------------------------------------------------
(* Two processes, each with an instance on the same Backing File *)

\* the Documents a new instance with options o holds after loading content
Reloaded(content, o) ==
    IF content.k \in {"absent", "blank"} THEN {EmptyObj}
    ELSE {r.cache : r \in decodeContent(content, o)}

\* the scheduler lets the other process run: the two interleave at their
\* file operations and at the calls of their callers
Switch ==
    /\ peer.id # 0
    /\ peer' = Process(3 - peer.id)
    /\ pc' = peer.pc
    /\ dead' = peer.dead
    /\ options' = peer.options
    /\ cache' = peer.cache
    /\ errListener' = peer.errListener
    /\ op' = peer.op
    /\ data' = peer.data
    /\ events' = peer.events
    /\ ret' = peer.ret
    /\ steps' = peer.steps
    /\ saveOutcome' = peer.saveOutcome
    /\ pre' = peer.pre
    /\ preCache' = peer.preCache
    /\ failed' = peer.failed
    /\ extTouched' = peer.extTouched
    /\ UNCHANGED <<fs, nOps, nFaults, outer>>

\* what the Backing File held when the two instances were constructed: an
\* object as plain JSON or as an envelope
TwoContents == {c \in InitContents : c.k \in {"json", "env"} /\ c.j.t = "obj"}

\* the (key, value) arguments of the sets of the two processes
TwoInputs == {<<<<"a">>, Num(1)>>, <<<<"a">>, Null>>}

\* both processes have constructed their instance, with the same options, on
\* a Backing File that existed; the first has or has not subscribed to
\* 'error', the second has not
InitTwo ==
    /\ \E c \in TwoContents,
          o \in {Opt(FALSE, 0, 0, TRUE), Opt(TRUE, KeyLen, 1, TRUE)} :
          /\ fs = [p \in {filePath, tempPath, backupPath} |->
                      IF p = filePath THEN c ELSE NoFile]
          /\ options = o
          /\ cache \in Reloaded(c, o)
          /\ \E doc \in Reloaded(c, o) :
                 peer = [NoPeer EXCEPT !.id = 2, !.pc = "idle", !.options = o,
                                       !.cache = doc]
    /\ pc = "idle"
    /\ dead = FALSE
    /\ errListener \in BOOLEAN
    /\ op = Call("none", <<>>, Undef)
    /\ data = NoFile
    /\ events = <<>>
    /\ ret = Pending
    /\ steps = <<>>
    /\ saveOutcome = "none"
    /\ pre = NoFile
    /\ preCache = EmptyObj
    /\ failed = FALSE
    /\ extTouched = FALSE
    /\ nOps = 0
    /\ nFaults = 0
    /\ outer = <<>>

NextTwo ==
    \/ Switch
    \/ Return
    \/ \E kv \in TwoInputs : Set(kv[1], kv[2])
    \/ WriteTemp
    \/ Rename
    \/ RenameFails
    \/ Notify

SpecTwo == InitTwo /\ [][NextTwo]_vars

----------------------------------------------------------------------------
(* The store with an observer of 'set', 'delete' and 'clear' whose callback *)
(* calls set: emit() runs the callbacks inside the call that emits          *)

\* the outer call, as it waits inside its emit()
Frame ==
    [op |-> op, data |-> data, events |-> events, ret |-> ret,
     steps |-> Append(steps, "reenter"), saveOutcome |-> saveOutcome,
     pre |-> pre, preCache |-> preCache]

\* this.emit(...) of a mutation runs the observer's callback, which calls
\* set(key, value); the callback runs once per emit and its own call does
\* not run it again
Reenter(key, value) ==
    /\ pc = "notify" /\ ~dead
    /\ op.name \in {"set", "delete", "clear"}
    /\ \A i \in 1..Len(steps) : steps[i] # "reenter"
    /\ outer = <<>>
    /\ nOps < MaxOps
    /\ nOps' = nOps + 1
    /\ outer' = <<Frame>>
    /\ op' = Call("set", key, value)
    /\ pre' = fs[filePath]
    /\ preCache' = cache
    /\ UNCHANGED peer
    /\ SetCall(key, value)

\* the callback's call is through: the outer emit() goes on with the next
\* observers, or the error the inner call raised leaves the outer call too
Resume ==
    /\ pc = "done" /\ ~dead
    /\ outer # <<>>
    /\ LET f == Head(outer)
       IN  /\ outer' = Tail(outer)
           /\ op' = f.op
           /\ data' = f.data
           /\ pre' = f.pre
           /\ preCache' = f.preCache
           /\ saveOutcome' = f.saveOutcome
           /\ steps' = f.steps
           /\ events' = f.events \o events
           /\ IF ret.k = "raise"
              THEN pc' = "done" /\ ret' = ret
              ELSE pc' = "notify" /\ ret' = f.ret
    /\ UNCHANGED <<fs, dead, options, cache, errListener, failed, extTouched,
                   nOps, nFaults, peer>>

\* the calls of the callback
NestedInputs == {<<<<"a", "b">>, Num(1)>>, <<<<"a">>, Null>>}

NextNested ==
    \/ Common
    \/ \E kv \in SetInputs : Set(kv[1], kv[2])
    \/ \E key \in Paths : Delete(key)
    \/ \E kv \in NestedInputs : Reenter(kv[1], kv[2])
    \/ Resume

SpecNested == Init /\ [][NextNested]_vars

----------------------------------------------------------------------------
(* The store under set and backup *)

\* destinations: another file, the Temp File, the Backing File itself
BackupDests == {backupPath, tempPath, filePath}

NextBackup ==
    \/ Common
    \/ \E kv \in SetInputs : Set(kv[1], kv[2])
    \/ \E destPath \in BackupDests : Backup(destPath)
    \/ \E destPath \in BackupDests : BackupFails(destPath)

SpecBackup == Init /\ [][NextBackup]_vars

----------------------------------------------------------------------------
(* Notions the properties are stated with *)

Mutations == {"set", "delete", "clear"}

SaveFailures == {"writefail", "renamefail"}

RECURSIVE Stored(_, _)
\* keys resolves to an entry stored in doc: every segment is a property the
\* value reached so far holds itself
Stored(doc, keys) ==
    IF keys = <<>> THEN TRUE
    ELSE /\ doc.t \in {"obj", "arr"}
         /\ keys[1] \in DOMAIN doc.m
         /\ Stored(doc.m[keys[1]], Tail(keys))

\* content cannot be decoded under options o: not JSON, or an envelope read
\* without a key or with another key
Undecodable(content, o) ==
    \/ content.k \in {"garbage", "partial"}
    \/ content.k = "env" /\ ~Truthy(o)
    \/ content.k = "env" /\ Truthy(o) /\ content.key # o.id

\* the notifications of the given name among those of the call
Emitted(name) == {i \in 1..Len(events) : events[i].name = name}

----------------------------------------------------------------------------
(* C1: Durability.  When a mutation has returned and no write or rename    *)
(* failed, a new instance constructed on the Backing File with the same    *)
(* options holds a Document equal to the one in memory.                    *)
C1_Durability ==
    (pc = "done" /\ op.name \in Mutations /\ ~failed /\ ~extTouched)
        => Reloaded(fs[filePath], options) = {cache}

(* C2: Atomic write.  At every step of a save, a crash included, the       *)
(* Backing File holds the complete content it had when the call began or   *)
(* the complete new encoding; a failed temp write, a failed rename and a   *)
(* crash before the rename leave it as it was when the call began.         *)
C2_InSave ==
    /\ pc \in {"write", "rename"} => fs[filePath] = pre
    /\ pc = "notify" => fs[filePath] = (IF saveOutcome = "ok" THEN data ELSE pre)
    /\ pc \in {"write", "rename", "notify"} => data.k \in {"json", "env"}

C2_Failure ==
    (WriteTempFails \/ RenameFails \/ (Crash /\ pc \in {"write", "rename"}))
        => (fs'[filePath] = pre /\ fs'[filePath] = fs[filePath])

C2_AtomicWrite == []C2_InSave /\ [][C2_Failure]_vars

\* a crash between the temp write and the rename: the new content is in the
\* Temp File, the Backing File still holds the old content
C2_Witness ==
    /\ dead /\ pc = "rename"
    /\ fs[tempPath] = data
    /\ fs[filePath] = pre
    /\ pre # data
    /\ pre # NoFile

(* C3: Caching isolation.  An external overwrite or deletion of the        *)
(* Backing File changes the result of no get, has or all.                  *)
C3_ReadsKept ==
    External => /\ \A key \in Paths : get(key, Undef)' = get(key, Undef)
                /\ \A key \in Paths : has(key)' = has(key)
                /\ all' = all

C3_CachingIsolation == [][C3_ReadsKept]_vars

\* after set('a', 1) and an external overwrite, get('a') has returned 1
C3_Witness ==
    /\ pc = "done" /\ op = Call("get", <<"a">>, Undef)
    /\ ret = Returned(Num(1))
    /\ extTouched
    /\ fs[filePath] \in ExternalContents

(* C4: Set/get round trip.  On a Document that is a mapping, set(k, v)     *)
(* returns v without raising and a following get(k) returns v, whatever    *)
(* sits at the segments of k.                                              *)
C4_SetGetRoundTrip ==
    (pc = "done" /\ op.name = "set" /\ preCache.t = "obj"
                 /\ saveOutcome \notin SaveFailures)
        => (ret = Returned(op.val) /\ get(op.key, Undef) = op.val)

(* C5: Write failure is absorbed.  When the temp write or the rename of a  *)
(* mutation's save fails, the mutation returns its normal result, whether  *)
(* or not an observer is subscribed to 'error', and an 'error'             *)
(* notification is emitted.                                                *)
C5_WriteFailureAbsorbed ==
    (pc = "done" /\ op.name \in Mutations /\ saveOutcome \in SaveFailures)
        => (ret.k = "val" /\ Emitted("error") # {})

(* C6: Mutation protocol order.  A set, clear or removing delete changes   *)
(* the Document, then saves once, then emits one notification of its own   *)
(* name; when the save succeeded the Backing File decodes to the new       *)
(* Document when the notification is delivered.                            *)
C6_ProtocolOrder ==
    /\ (pc = "done" /\ op.name \in Mutations /\ steps # <<>>)
           => (steps = <<"mutate", "save", "notify">>
               /\ Cardinality(Emitted(op.name)) = 1)
    /\ (pc = "notify" /\ op.name \in Mutations /\ saveOutcome = "ok")
           => Reloaded(fs[filePath], options) = {cache}

(* C7: Ready notification.  Every construction that produces an instance   *)
(* emits exactly one 'ready', in every branch of the load.                 *)
C7_ReadyOnce ==
    (pc = "done" /\ op.name = "construct")
        => Cardinality(Emitted("ready")) = 1

(* C8: Delete reports and persists only real removals.  delete(k) returns  *)
(* true exactly when k resolved to a stored entry, and then saves once and *)
(* emits delete(k); otherwise it returns false and changes neither the     *)
(* Document nor the Backing File and emits nothing.                        *)
C8_DeleteRealRemovals ==
    (pc = "done" /\ op.name = "delete" /\ saveOutcome \notin SaveFailures)
        => IF Stored(preCache, op.key)
           THEN /\ ret = Returned(Bool(TRUE))
                /\ ~Stored(cache, op.key)
                /\ steps = <<"mutate", "save", "notify">>
                /\ events = <<Ev("delete", op.key, Undef)>>
           ELSE /\ ret = Returned(Bool(FALSE))
                /\ cache = preCache
                /\ fs[filePath] = pre
                /\ events = <<>>

(* C9: Decode failure is absorbed at load.  Construction with valid        *)
(* options on an existing Backing File does not raise, and when the        *)
(* content cannot be decoded under the options the Document is empty.      *)
C9_DecodeFailureAbsorbed ==
    (pc = "done" /\ op.name = "construct" /\ pre # NoFile)
        => /\ ret = Returned(Undef)
           /\ Undecodable(pre, options) => cache = EmptyObj

\* an envelope was read with another key, and the Document is empty
C9_Witness ==
    /\ pc = "done" /\ op.name = "construct"
    /\ pre.k = "env" /\ Truthy(options) /\ pre.key # options.id
    /\ cache = EmptyObj

(* C10: Encryption key validation.  A construction whose encryptionKey is  *)
(* present and not exactly 32 characters long, the empty key included,     *)
(* raises, produces no instance and touches no file.                       *)
C10_KeyValidation ==
    (op.name = "construct" /\ options.present /\ options.len # KeyLen)
        => (ret = Raised("Error") /\ pc = "none" /\ fs[filePath] = pre)

\* the primitive values held anywhere in v
RECURSIVE Leaves(_)
Leaves(v) ==
    IF v.t \in {"obj", "arr"}
    THEN UNION ({Leaves(v.m[kk]) : kk \in DOMAIN v.m}
                \cup {Leaves(v.e[i]) : i \in 1..Len(v.e)})
    ELSE {v}

\* content shows in clear a value held in doc
InClear(content, doc) ==
    content.k = "json" /\ Leaves(content.j) \cap Leaves(doc) # {}

(* C11: Confidentiality at rest.  For an instance with an encryption key,  *)
(* in every state after construction, whatever the Backing File held       *)
(* before, the Backing File never shows in clear a value held in the       *)
(* Document, and every content the store writes is an envelope under the   *)
(* configured key.                                                         *)
C11_ConfidentialityAtRest ==
    /\ (pc \in {"idle", "done"} /\ Truthy(options) /\ ~extTouched
                                 /\ cache.t = "obj")
           => ~InClear(fs[filePath], cache)
    /\ (pc \in {"write", "rename", "notify"} /\ Truthy(options))
           => (data.k = "env" /\ data.key = options.id)

(* C12: Fresh store.  When the Backing File is absent at construction and  *)
(* no write or rename fails, the Document is {} after construction and the *)
(* Backing File exists and decodes to {} under the options.                *)
C12_FreshStore ==
    (pc = "done" /\ op.name = "construct" /\ ret.k = "val"
                 /\ pre = NoFile /\ saveOutcome \notin SaveFailures)
        => /\ cache = EmptyObj
           /\ fs[filePath].k \in {"json", "env"}
           /\ Reloaded(fs[filePath], options) = {EmptyObj}

\* an encrypted store was constructed on an absent file: the file is now an
\* envelope of {} under the key
C12_Witness ==
    /\ pc = "done" /\ op.name = "construct" /\ pre = NoFile
    /\ saveOutcome = "ok"
    /\ Truthy(options)
    /\ fs[filePath].k = "env" /\ fs[filePath].j = EmptyObj
    /\ fs[tempPath] = NoFile
    /\ cache = EmptyObj

C19_SetCollapses ==
    (pc = "done" /\ op.name = "set" /\ preCache.t = "obj"
                 /\ saveOutcome \notin SaveFailures)
        => /\ ret.k = "val"
           /\ Stored(cache, op.key)
           /\ \A i \in 0..(Len(op.key) - 1) :
                  getDeep(cache, SubSeq(op.key, 1, i)).t = "obj"

RECURSIVE Resolve(_, _)
\* the value a path reaches when only mappings are descended into and only
\* the entries they hold themselves count
Resolve(current, keys) ==
    IF keys = <<>> THEN current
    ELSE IF current.t # "obj" \/ keys[1] \notin DOMAIN current.m THEN Undef
    ELSE Resolve(current.m[keys[1]], Tail(keys))

(* C20: Path-get short-circuits on non-mappings.  get(k) returns the       *)
(* default and has(k) false as soon as an intermediate value is absent,    *)
(* null or not a mapping, an array included; otherwise get returns the     *)
(* value at the last segment.                                              *)
C20_GetShortCircuits ==
    (pc = "done" /\ op.name \in {"get", "has"}
                 /\ \A i \in 1..Len(op.key) : op.key[i] \notin ProtoKeys)
        => ret = Returned(IF op.name = "get"
                          THEN Resolve(preCache, op.key)
                          ELSE Bool(Resolve(preCache, op.key) # Undef))

\* the result of the numeric call op on the number c, where the arithmetic
\* of the integers and of the program agree
Expected(c) ==
    CASE op.name = "add" -> Num(c + op.val.n)
      [] op.name = "subtract" -> Num(c - op.val.n)
      [] op.name = "math" /\ op.operator = "+" -> Num(c + op.val.n)
      [] op.name = "math" /\ op.operator = "-" -> Num(c - op.val.n)
      [] op.name = "math" /\ op.operator = "*" -> Num(c * op.val.n)
      [] op.name = "math" /\ op.operator = "%" /\ op.val.n > 0 /\ c >= 0 ->
             Num(c % op.val.n)
      [] OTHER -> ret.v

(* C13: Numeric update.  On a key whose value is absent or a number c (0   *)
(* when absent), add(k, n) returns c + n, subtract(k, n) returns c - n and *)
(* math(k, op, n) with op among + - * % returns the result of op, and      *)
(* get(k) is the returned number afterwards.                               *)
C13_NumericUpdate ==
    (/\ pc = "done" /\ op.name \in {"add", "subtract", "math"}
     /\ op.name = "math" => op.operator \in {"+", "-", "*", "%"}
     /\ preCache.t = "obj"
     /\ saveOutcome \notin SaveFailures
     /\ ~Stored(preCache, op.key) \/ getDeep(preCache, op.key).t = "num")
        => LET c == IF Stored(preCache, op.key)
                    THEN getDeep(preCache, op.key).n ELSE 0
           IN  /\ ret = Returned(Expected(c))
               /\ get(op.key, Undef) = Expected(c)

RECURSIVE StructEq(_, _)
\* two values are structurally equal: the same kind, the same members under
\* the same keys, the same elements at the same places
StructEq(v, w) ==
    /\ v.t = w.t
    /\ CASE v.t = "obj" -> /\ DOMAIN v.m = DOMAIN w.m
                           /\ \A kk \in DOMAIN v.m : StructEq(v.m[kk], w.m[kk])
         [] v.t = "arr" -> /\ Len(v.e) = Len(w.e)
                           /\ \A i \in 1..Len(v.e) : StructEq(v.e[i], w.e[i])
         [] OTHER -> v = w

\* the item matches the matcher of pull: a predicate that returns true, or a
\* literal structurally equal to the item
Matches(item, matcher) ==
    IF matcher.t = "fn" THEN Apply(matcher, item) ELSE StructEq(item, matcher)

\* the elements at the key of the call when it began, none when absent
Previous ==
    IF Stored(preCache, op.key) THEN getDeep(preCache, op.key).e ELSE <<>>

(* C14: Array update.  On an absent or array-valued key, a push that       *)
(* returns leaves at k the previous elements followed by the items in      *)
(* order, and a pull that returns leaves at k exactly the previous         *)
(* elements that do not match, in their order, where a literal matches the *)
(* elements structurally equal to it and a predicate those it holds for.   *)
C14_ArrayUpdate ==
    (/\ pc = "done" /\ op.name \in {"push", "pull"} /\ ret.k = "val"
     /\ ~Stored(preCache, op.key) \/ getDeep(preCache, op.key).t = "arr")
        => /\ get(op.key, Undef).t = "arr"
           /\ get(op.key, Undef).e =
                IF op.name = "push" THEN Previous \o op.val.e
                ELSE SelectSeq(Previous, LAMBDA item : ~Matches(item, op.val))
           /\ ret.v = get(op.key, Undef)

(* C17: Backup.  backup(destPath) does not raise; it returns true exactly  *)
(* when the copy succeeded, and then the destination holds the content of  *)
(* the Backing File; it leaves the Document and the Backing File as they   *)
(* were and emits no notification.                                         *)
C17_Backup ==
    (pc = "done" /\ op.name = "backup")
        => /\ ret = Returned(Bool(saveOutcome = "copied"))
           /\ saveOutcome = "copied" => (pre # NoFile /\ fs[op.key[1]] = pre)
           /\ cache = preCache
           /\ fs[filePath] = pre
           /\ events = <<>>

\* a copy failed on the way: backup returned false, the destination is cut
\* short, the Backing File and the Document of an earlier set are as they were
C17_Witness ==
    /\ pc = "done" /\ op.name = "backup"
    /\ saveOutcome = "copyfail"
    /\ ret = Returned(Bool(FALSE))
    /\ fs[backupPath].k = "partial"
    /\ fs[filePath].k \in {"json", "env"}
    /\ cache # EmptyObj

(* C15: Two instances on one Backing File.  With two processes whose file  *)
(* operations interleave step by step and no I/O fault, no save of either  *)
(* instance fails, so neither emits or raises an error, and the rename     *)
(* that ends a save puts that instance's own encoding in place: the        *)
(* Backing File decodes to the Document of the instance that saved last.   *)
C15_Silent ==
    (nFaults = 0 /\ pc \in {"notify", "done"})
        => (saveOutcome \notin SaveFailures /\ Emitted("error") = {}
            /\ ret.err # "IOError")

C15_LastWriter == (nFaults = 0 /\ Rename) => fs'[filePath] = data

C15_TwoInstances == []C15_Silent /\ [][C15_LastWriter]_vars

(* C16: No interleaving on one instance.  No public operation begins while *)
(* another one on the instance has not returned, an observer's callback    *)
(* included, and the notifications an operation delivers to the observers  *)
(* are its own: they arrive in the order the mutations were applied.       *)
(* Stated for the behaviours without I/O fault.                            *)
C16_NoInterleaving ==
    /\ nFaults = 0 => outer = <<>>
    /\ (nFaults = 0 /\ pc = "done" /\ op.name \in {"set", "delete", "clear"})
           => \A i \in 1..Len(events) :
                  events[i].name = "error"
                  \/ (events[i].name = op.name /\ events[i].key = op.key)

(* C21: The Temp File is transient.  Whenever no public operation of the   *)
(* instance is in progress, after a construction and after a mutation has  *)
(* returned or raised, whether its save succeeded or failed, the Temp File *)
(* does not exist.  Stated for the calls whose temp write went through:    *)
(* the rename succeeded or failed.                                         *)
C21_TempFileTransient ==
    (pc = "done" /\ ~dead /\ saveOutcome \in {"ok", "renamefail"})
        => fs[tempPath] = NoFile

(* C22: Load does not write an existing file.  A construction on a Backing *)
(* File that exists, blank, decodable or undecodable, is over in one step  *)
(* that changes no file: the Backing File keeps its content, no Temp File  *)
(* is created and no save is begun.                                        *)
C22_LoadStep ==
    ((\E o \in ConstructorOptions : Construct(o)) /\ fs[filePath] # NoFile)
        => (fs' = fs /\ pc' = "done" /\ saveOutcome' = "none")

C22_LoadDoesNotWrite == [][C22_LoadStep]_vars

\* an instance was constructed with a key on a file that is not JSON: the
\* Document is empty, the file is as it was, there is no Temp File
C22_Witness ==
    /\ pc = "done" /\ op.name = "construct" /\ ret.k = "val"
    /\ Truthy(options)
    /\ pre = Garbage
    /\ fs[filePath] = Garbage
    /\ fs[tempPath] = NoFile
    /\ cache = EmptyObj

\* the call is one the store has to reject: a numeric operation on a stored
\* value that is no number, an array operation on a stored value that is no
\* array, or math with an operator it does not know
Rejected ==
    \/ /\ op.name \in {"add", "subtract", "math"}
       /\ Stored(preCache, op.key)
       /\ typeof(getDeep(preCache, op.key)) # "number"
    \/ /\ op.name \in {"push", "pull"}
       /\ Stored(preCache, op.key)
       /\ getDeep(preCache, op.key).t # "arr"
    \/ /\ op.name = "math"
       /\ op.operator \notin {"+", "-", "*", "/", "%"}

(* C24: Rejected operations change nothing.  A numeric operation on a key  *)
(* whose value is present and no number, an array operation on a key whose *)
(* value is present and no array, and math with an unknown operator raise, *)
(* leave the Document and the files as they were and emit nothing.         *)
C24_RejectedChangeNothing ==
    (pc = "done" /\ op.name \in ViaSet /\ Rejected)
        => /\ ret.k = "raise"
           /\ cache = preCache
           /\ fs[filePath] = pre
           /\ saveOutcome = "none"
           /\ events = <<>>

\* push on a key that holds null, after a set that stored the null, raised
\* and left Document and Backing File alone
C24_Witness ==
    /\ pc = "done" /\ op.name = "push" /\ op.key = <<"a">>
    /\ preCache.t = "obj" /\ "a" \in DOMAIN preCache.m /\ preCache.m["a"] = Null
    /\ ret = Raised("Error")
    /\ cache = preCache
    /\ fs[filePath].k \in {"json", "env"} /\ fs[filePath] = pre
    /\ events = <<>>

\* the caller's entry is in the Document doc
Changed(doc) ==
    \E kv \in CallerInputs : getDeep(doc, <<kv[1]>>) = kv[2]

(* C23: Aliasing of all().  A change the caller makes to the structure     *)
(* all() returned shows in get and has from then on, writes no file and    *)
(* emits nothing when it is made, and a mutation whose save succeeds while *)
(* the change is in the Document writes it to the Backing File.            *)
C23_Step ==
    /\ (\E kv \in CallerInputs : CallerChange(kv[1], kv[2]) /\ all.t # "null")
           => /\ fs' = fs
              /\ events' = <<>> /\ saveOutcome' = "none"
              /\ Changed(cache')
    /\ ((pc' = "done" /\ op'.name \in {"get", "has"} /\ Changed(cache))
           => ret'.v \in {Num(7), Bool(TRUE)})
    /\ ((Rename /\ Changed(cache))
           => \A doc \in Reloaded(fs'[filePath], options) : Changed(doc))
C23_AliasingOfAll == [][C23_Step]_vars

(* C25: Recovery after a write failure.  When saves have failed since the  *)
(* last one that succeeded, the rename of the next mutation's save leaves  *)
(* a Backing File that decodes to the whole Document, the changes whose    *)
(* own save failed included.                                               *)
C25_Step ==
    (Rename /\ failed /\ op.name \in Mutations)
        => Reloaded(fs'[filePath], options) = {cache}
C25_Recovery == [][C25_Step]_vars

====
